---- MODULE Spec2Model ----
(***************************************************************************)
(* Sequential speech playback engine of the Finnish Text Analyser          *)
(* (prefetching App component, src/App.tsx lines 293-621).                 *)
(*                                                                         *)
(* One action is one JavaScript task: a user event handler, or the         *)
(* settling of a promise / media event together with every microtask       *)
(* continuation it triggers, up to the next await on an external event.    *)
(* Segment indices are 0-based as in the source; sentencesForTTS is a      *)
(* TLA+ sequence, so the text of index k is sentences[k + 1].              *)
(***************************************************************************)
EXTENDS Integers, Sequences, FiniteSets, TLC

\* ---- bounds of the model ----
MaxSessions == 2     \* speakSentences invocations that enter the loop
MaxLen == 3          \* sentences per analysed document
MaxResets == 1       \* handleReset invocations
MaxRateChanges == 2  \* speechRate / selectedVoice changes (Web Speech variant)

\* ---- program constant ----
PRELOAD_AHEAD_COUNT == 2

NULL == -1

\* Sentence counts of the texts the user analyses
DocLens == {0, MaxLen}
Sessions == 1..MaxSessions

\* The sentence list handleAnalyse installs for the d-th document with n
\* sentences: a text is identified by its document and its position.
SentencesOf(d, n) == [k \in 1..n |-> <<d, k - 1>>]

VARIABLES
  sentencesForTTS,     \* useState<string[]>
  isAnalyzing,         \* useState<boolean>
  isSpeaking,          \* useState<boolean>
  speakingSentenceId,  \* useState<number | null>
  audioRef,            \* useRef: the session whose audio element it holds, or NULL
  isCancelledRef,      \* useRef(false)
  audioCacheRef,       \* useRef<Map<number, SynthesizedSpeech>>
  preloadingRef,       \* useRef<Set<number>>
  pc,                  \* per speakSentences invocation: "new", "synth", "play", "done"
  idx,                 \* per invocation: loop variable i
  sent,                \* per invocation: sentencesForTTS captured by the closure
  audioState,          \* per invocation: its audio element: "none", "playing", "paused"
  audioSrc,            \* per invocation: the speech its audio element was created from, or NoSpeech
  requests,            \* synthesizeSpeech calls not yet settled
  sessionCount,        \* invocations that entered the loop so far
  resetCount,          \* handleReset invocations so far
  nowSeq,              \* per running invocation: values passed to setSpeakingSentenceId(i)
  played,              \* per running invocation: indices whose audio element was started
  rejected,            \* last step: awaited promises that rejected (invocation, index)
  alerted,             \* last step: invocations that called alert()
  cancelledAt,         \* per running invocation: index active when stop/reset hit it, or NULL
  lastOp,              \* last step: the handler or callback that ran, and its invocation
  events,              \* last step: the calls an invocation made, in program order
  inFlightAtStop,      \* pending prefetch calls for index i+1 issued before Stop interrupted segment i
  ws,                  \* the Web Speech variant of App (src/unnamed/part_002), a separate program
  rt,                  \* the text view: htmlContent and what RichTextDisplay renders from it
  pr,                  \* the playback rate: playbackRate, the rate an invocation captured, the rate of its audio element
  tt                   \* the word lookup: isTranslating, tooltip and the translateWord call

vars == <<sentencesForTTS, isAnalyzing, isSpeaking, speakingSentenceId, audioRef,
          isCancelledRef, audioCacheRef, preloadingRef, pc, idx, sent, audioState,
          audioSrc, requests, sessionCount, resetCount, nowSeq, played, rejected,
          alerted, cancelledAt, lastOp, events, inFlightAtStop, ws, rt, pr, tt>>

hist == <<nowSeq, played>>

\* The variables of the prefetching App
appVars == <<sentencesForTTS, isAnalyzing, isSpeaking, speakingSentenceId, audioRef,
             isCancelledRef, audioCacheRef, preloadingRef, pc, idx, sent, audioState,
             audioSrc, requests, sessionCount, resetCount, nowSeq, played, rejected,
             alerted, cancelledAt, lastOp, events, inFlightAtStop>>

\* A Map.set that drops every other entry
CacheSetDroppingOthers(cache, id, data) == [k \in {id} |-> data]

\* Map.has / Map.set on audioCacheRef
CacheHas(cache, id) == id \in DOMAIN cache
CacheSet(cache, id, data) ==
  [k \in (DOMAIN cache) \cup {id} |-> IF k = id THEN data ELSE cache[k]]

EmptyCache == [k \in {} |-> 0]

\* The handler or callback a step runs; s is the speakSentences invocation it
\* belongs to, NULL for a handler or callback that belongs to none
Op(name, s) == [op |-> name, sess |-> s, outcome |-> "none"]

\* The callbacks of a synthesizeSpeech promise that settled with outcome o
Settled(name, s, o) == [op |-> name, sess |-> s, outcome |-> o]

\* What synthesizeSpeech(text) resolves to: audio for that text.  The payload
\* is the base64 string of the API response, which base64ToBlob decodes.
Speech(req) == [text |-> req.text]

\* The source of an audio element that has none (never created, revoked, or
\* src = '')
NoSpeech == [text |-> << >>]

\* The Web Speech variant after mount: state and refs, the utterance queue of
\* speechSynthesis, the events of cancelled utterances not yet dispatched, and
\* what was spoken since speakSentences was last called.
WsInit ==
  [sentences |-> << >>,            \* useState<SentenceData[]>: the ids
   isAnalyzing |-> FALSE,
   isSpeaking |-> FALSE,
   speakingSentenceId |-> NULL,
   speechRate |-> 0,               \* the configuration: speechRate and selectedVoice
   currentSentenceIndexRef |-> 0,
   queue |-> << >>,                \* utterances: index, closure (rate, sentences), started
   pending |-> << >>,              \* events of cancelled utterances, in dispatch order
   spoken |-> << >>,               \* indices of the utterances started since the last call
   resumeAt |-> NULL,              \* start index of the last call if the effect made it
                                   \* and neither stop nor reset followed
   stopped |-> FALSE,              \* the stop branch of handleReadAloud ran and no start since
   starts |-> 0,
   resets |-> 0,
   op |-> "mount"]

\* The text view after mount: the typed text (one text node, as characters),
\* the sentences handleAnalyse made of it, the now-playing id passed to
\* RichTextDisplay and the word spans it rendered.
RtInit ==
  [htmlContent |-> << >>,
   isAnalyzing |-> FALSE,
   sentencesForTTS |-> << >>,
   speakingSentenceId |-> NULL,
   words |-> << >>,
   resets |-> 0]

\* The playback rate after mount. loopRate is the playbackRate in the closure
\* of the playAudio that the running speakSentences invocation calls,
\* audioRate the playbackRate of the element in audioRef; NULL when there is
\* none.
PrInit ==
  [playbackRate |-> 1,
   isSpeaking |-> FALSE,
   phase |-> "idle",               \* of the invocation: "idle", "synth", "play", "cancelled"
   i |-> NULL,                     \* its loop variable
   loopRate |-> NULL,
   audioRate |-> NULL,
   starts |-> 0,
   changes |-> 0]

\* No tooltip: useState<TooltipData>(null)
NoTooltip == [word |-> << >>, text |-> [kind |-> "null", of |-> << >>]]

\* The word lookup after mount. closure is the isTranslating that the
\* handleWordClick of the rendered word spans holds.
TtInit ==
  [isTranslating |-> FALSE,
   closure |-> FALSE,
   tooltip |-> NoTooltip,
   calls |-> {},                   \* translateWord calls not yet settled: number and word
   issued |-> 0,                   \* translateWord calls so far
   clicks |-> 0]                   \* word clicks so far

Init ==
  /\ ws = WsInit
  /\ rt = RtInit
  /\ pr = PrInit
  /\ tt = TtInit
  /\ sentencesForTTS = << >>
  /\ isAnalyzing = FALSE
  /\ isSpeaking = FALSE
  /\ speakingSentenceId = NULL
  /\ audioRef = NULL
  /\ isCancelledRef = FALSE
  /\ audioCacheRef = EmptyCache
  /\ preloadingRef = {}
  /\ pc = [s \in Sessions |-> "new"]
  /\ idx = [s \in Sessions |-> 0]
  /\ sent = [s \in Sessions |-> << >>]
  /\ audioState = [s \in Sessions |-> "none"]
  /\ audioSrc = [s \in Sessions |-> NoSpeech]
  /\ requests = {}
  /\ sessionCount = 0
  /\ resetCount = 0
  /\ nowSeq = [s \in Sessions |-> << >>]
  /\ played = [s \in Sessions |-> << >>]
  /\ rejected = {}
  /\ alerted = {}
  /\ cancelledAt = [s \in Sessions |-> NULL]
  /\ lastOp = Op("mount", NULL)
  /\ events = << >>
  /\ inFlightAtStop = {}

\* handleAnalyse: installs the sentence list of the text typed into the input
\* view.  A text without any sentence character gives the empty list.
handleAnalyse(n) ==
  /\ ~isAnalyzing
  /\ sentencesForTTS' = SentencesOf(resetCount + 1, n)
  /\ isAnalyzing' = TRUE
  /\ rejected' = {}
  /\ alerted' = {}
  /\ lastOp' = Op("handleAnalyse", NULL)
  /\ events' = << >>
  /\ ws' = ws
  /\ rt' = rt
  /\ pr' = pr
  /\ tt' = tt
  /\ UNCHANGED <<isSpeaking, speakingSentenceId, audioRef, isCancelledRef, audioCacheRef,
                 preloadingRef, pc, idx, sent, audioState, audioSrc, requests, sessionCount,
                 resetCount, hist, cancelledAt, inFlightAtStop>>

\* ---- the mutable state as one record, so that a handler is the composition
\* ---- of the statements it executes ----
Cur ==
  [sentencesForTTS |-> sentencesForTTS, isAnalyzing |-> isAnalyzing,
   isSpeaking |-> isSpeaking, speakingSentenceId |-> speakingSentenceId,
   audioRef |-> audioRef, isCancelledRef |-> isCancelledRef,
   audioCacheRef |-> audioCacheRef, preloadingRef |-> preloadingRef,
   pc |-> pc, idx |-> idx, sent |-> sent, audioState |-> audioState, audioSrc |-> audioSrc,
   requests |-> requests, sessionCount |-> sessionCount, resetCount |-> resetCount,
   nowSeq |-> nowSeq, played |-> played,
   rejected |-> {}, alerted |-> {}, events |-> << >>, cancelledAt |-> cancelledAt]

Commit(st) ==
  /\ sentencesForTTS' = st.sentencesForTTS
  /\ isAnalyzing' = st.isAnalyzing
  /\ isSpeaking' = st.isSpeaking
  /\ speakingSentenceId' = st.speakingSentenceId
  /\ audioRef' = st.audioRef
  /\ isCancelledRef' = st.isCancelledRef
  /\ audioCacheRef' = st.audioCacheRef
  /\ preloadingRef' = st.preloadingRef
  /\ pc' = st.pc
  /\ idx' = st.idx
  /\ sent' = st.sent
  /\ audioState' = st.audioState
  /\ audioSrc' = st.audioSrc
  /\ requests' = st.requests
  /\ sessionCount' = st.sessionCount
  /\ resetCount' = st.resetCount
  /\ nowSeq' = st.nowSeq
  /\ played' = st.played
  /\ rejected' = st.rejected
  /\ alerted' = st.alerted
  /\ events' = st.events
  /\ cancelledAt' = st.cancelledAt
  /\ ws' = ws
  /\ rt' = rt
  /\ pr' = pr
  /\ tt' = tt

\* A call invocation s makes: setSpeakingSentenceId(id) ("now"), a prefetch
\* or inline synthesizeSpeech for index id ("prefetch", "synth"), audio.play()
\* for index id ("play"), the return of speakSentences ("idle"); and the
\* ended event of its audio element ("ended")
Event(kind, s, id) == <<kind, s, id>>
Emit(st, e) == [st EXCEPT !.events = Append(@, e)]

\* Going idle without clearing the highlighted sentence
SetIdleKeepingHighlight(st) == [st EXCEPT !.isSpeaking = FALSE]

\* setIsSpeaking(false); setSpeakingSentenceId(null)
SetIdle(st) == [st EXCEPT !.isSpeaking = FALSE, !.speakingSentenceId = NULL]

\* speakSentences, after the loop: back to idle, audioRef dropped.  The
\* invocation returns: its locals and its history are dropped with it.
EndLoop(st, s) ==
  [SetIdle(Emit(st, Event("idle", s, NULL))) EXCEPT !.audioRef = NULL, !.pc[s] = "done",
                      !.idx[s] = 0, !.sent[s] = << >>,
                      !.nowSeq[s] = << >>, !.played[s] = << >>,
                      !.cancelledAt[s] = NULL]

\* The pending synthesizeSpeech call invocation s awaits inline for index id
InlineRequest(st, s, id) ==
  [kind |-> "inline", sess |-> s, id |-> id, text |-> st.sent[s][id + 1],
   issuedAt |-> st.resetCount, copy |-> 0]

\* A pending fire-and-forget synthesizeSpeech call for index id: its callbacks
\* capture id only.  copy tells apart calls that are otherwise alike.
PrefetchRequest(st, s, id) ==
  LET alike(c) == [kind |-> "prefetch", sess |-> NULL, id |-> id,
                   text |-> st.sent[s][id + 1], issuedAt |-> st.resetCount, copy |-> c]
  IN alike(CHOOSE c \in 0..Cardinality(st.requests) :
             /\ alike(c) \notin st.requests
             /\ \A b \in 0..(c - 1) : alike(b) \in st.requests)

\* A preload loop that does not consult preloadingRef
PreloadIdsIgnoringInFlight(cache, preloading, n, i) ==
  {id \in {i + j : j \in 1..PRELOAD_AHEAD_COUNT} : id < n /\ ~CacheHas(cache, id)}

\* A preload loop that does not consult audioCacheRef
PreloadIdsIgnoringCache(cache, preloading, n, i) ==
  {id \in {i + j : j \in 1..PRELOAD_AHEAD_COUNT} : id < n /\ id \notin preloading}

\* A preload loop that looks one sentence ahead only
PreloadIdsOneAhead(cache, preloading, n, i) ==
  {id \in {i + 1} : id < n /\ ~CacheHas(cache, id) /\ id \notin preloading}

\* Indices the preload loop of iteration i issues a request for
PreloadIds(cache, preloading, n, i) ==
  {id \in {i + j : j \in 1..PRELOAD_AHEAD_COUNT} :
     /\ id < n
     /\ ~CacheHas(cache, id)
     /\ id \notin preloading}

\* A preload loop body that calls synthesizeSpeech twice for the index
PreloadOneDuplicating(st, s, id) ==
  IF id \in PreloadIds(st.audioCacheRef, st.preloadingRef, Len(st.sent[s]), st.idx[s])
  THEN LET st1 == [st EXCEPT !.preloadingRef = @ \cup {id},
                             !.requests = @ \cup {PrefetchRequest(st, s, id)}]
       IN Emit([st1 EXCEPT !.requests = @ \cup {PrefetchRequest(st1, s, id)}],
               Event("prefetch", s, id))
  ELSE st

\* speakSentences, body of the preload loop for preloadIndex = id
PreloadOne(st, s, id) ==
  IF id \in PreloadIds(st.audioCacheRef, st.preloadingRef, Len(st.sent[s]), st.idx[s])
  THEN Emit([st EXCEPT !.preloadingRef = @ \cup {id},
                       !.requests = @ \cup {PrefetchRequest(st, s, id)}],
            Event("prefetch", s, id))
  ELSE st

\* speakSentences, preload loop from j on
RECURSIVE PreloadFrom(_, _, _)
PreloadFrom(st, s, j) ==
  IF j > PRELOAD_AHEAD_COUNT THEN st
  ELSE PreloadFrom(PreloadOne(st, s, st.idx[s] + j), s, j + 1)

\* A preload loop that counts j down
PreloadDescending(st, s) ==
  PreloadOne(PreloadOne(st, s, st.idx[s] + 2), s, st.idx[s] + 1)

\* speakSentences, preload loop
Preload(st, s) == PreloadFrom(st, s, 1)

\* playAudio: resolves at once when cancelled (the loop then breaks at its
\* header or runs out), otherwise creates the audio element, stores it in
\* audioRef and starts it.
playAudio(st, s, speech) ==
  IF st.isCancelledRef THEN EndLoop(st, s)
  ELSE Emit([st EXCEPT !.audioRef = s, !.audioState[s] = "playing",
                       !.audioSrc[s] = speech,
                       !.played[s] = Append(@, st.idx[s]), !.pc[s] = "play"],
            Event("play", s, st.idx[s]))

\* A Driver that waits for a prefetch request in flight instead of
\* synthesizing inline
ResolveAudioAwaitingPrefetch(st, s) ==
  LET i == st.idx[s] IN
  IF CacheHas(st.audioCacheRef, i)
  THEN IF st.isCancelledRef THEN EndLoop(st, s)
       ELSE playAudio(st, s, st.audioCacheRef[i])
  ELSE IF i \in st.preloadingRef
       THEN [st EXCEPT !.pc[s] = "wait"]
       ELSE Emit([st EXCEPT !.requests = @ \cup {InlineRequest(st, s, i)},
                            !.pc[s] = "synth"],
                 Event("synth", s, i))

\* speakSentences, try block up to the first await
ResolveAudio(st, s) ==
  LET i == st.idx[s] IN
  IF CacheHas(st.audioCacheRef, i)
  THEN IF st.isCancelledRef THEN EndLoop(st, s)
       ELSE playAudio(st, s, st.audioCacheRef[i])
  ELSE Emit([st EXCEPT !.requests = @ \cup {InlineRequest(st, s, i)},
                       !.pc[s] = "synth"],
            Event("synth", s, i))

\* A loop that skips a sentence when it advances
NextIndexSkipping(i) == i + 2

\* i++ of the for loop
NextIndex(i) == i + 1

\* A loop header without the cancellation check
LoopRunsIgnoringCancel(k, n, cancelled) == k < n

\* The loop header's decision to run the body for index k
LoopRuns(k, n, cancelled) == k < n /\ ~cancelled

\* speakSentences: the for loop entered at its header with i = k, run up to
\* the next await or to the end of the function
LoopFrom(st, s, k) ==
  IF ~LoopRuns(k, Len(st.sent[s]), st.isCancelledRef) THEN EndLoop(st, s)
  ELSE ResolveAudio(Preload(Emit([st EXCEPT !.idx[s] = k,
                                            !.speakingSentenceId = k,
                                            !.nowSeq[s] = Append(@, k)],
                                 Event("now", s, k)), s), s)

\* A catch block that shows the alert and goes on with the next sentence
CatchErrorSkipping(st, s, what) ==
  LoopFrom([st EXCEPT !.rejected = @ \cup {[sess |-> s, id |-> st.idx[s], what |-> what]},
                      !.alerted = @ \cup {s}], s, NextIndex(st.idx[s]))

\* speakSentences, the awaited promise rejected while at index idx[s]: the
\* catch block shows one alert and breaks, then the code after the loop runs
CatchError(st, s, what) ==
  EndLoop([st EXCEPT !.rejected = @ \cup {[sess |-> s, id |-> st.idx[s], what |-> what]},
                     !.alerted = @ \cup {s}], s)

\* speakSentences without the range check of its first lines
speakSentencesUnguarded(st, s, startIndex) ==
  LoopFrom([st EXCEPT !.isCancelledRef = FALSE, !.isSpeaking = TRUE,
                      !.sent[s] = st.sentencesForTTS,
                      !.sessionCount = s], s, startIndex)

\* speakSentences(startIndex) as invocation s
speakSentences(st, s, startIndex) ==
  IF startIndex >= Len(st.sentencesForTTS) THEN SetIdle(st)
  ELSE LoopFrom([st EXCEPT !.isCancelledRef = FALSE, !.isSpeaking = TRUE,
                           !.sent[s] = st.sentencesForTTS,
                           !.sessionCount = s], s, startIndex)

\* The invocations suspended at an await
Suspended(st) == {s \in Sessions : st.pc[s] \in {"synth", "play"}}

\* History: the index each suspended invocation was at when it was cancelled
MarkCancelled(st) ==
  [st EXCEPT !.cancelledAt = [s \in Sessions |->
      IF s \in Suspended(st) /\ @[s] = NULL THEN st.idx[s] ELSE @[s]]]

\* Dropping the handle without pausing the element
ReleaseAudioWithoutPause(st) == [st EXCEPT !.audioRef = NULL]

\* audioRef.current.pause(); audioRef.current.src = ''; audioRef.current = null
ReleaseAudio(st) ==
  IF st.audioRef = NULL THEN st
  ELSE [st EXCEPT !.audioState[st.audioRef] = "paused",
                  !.audioSrc[st.audioRef] = NoSpeech, !.audioRef = NULL]

\* A stop that also empties the cache
StopSpeakingClearingCache(st) ==
  SetIdle(ReleaseAudio([st EXCEPT !.isCancelledRef = TRUE,
                                  !.audioCacheRef = EmptyCache]))

\* handleReadAloud, stop branch
StopSpeaking(st) ==
  SetIdle(ReleaseAudio([st EXCEPT !.isCancelledRef = TRUE]))

\* handleReadAloud (the button exists in the analysis view only)
handleReadAloud ==
  /\ isAnalyzing
  /\ IF isSpeaking
     THEN /\ Commit(StopSpeaking(MarkCancelled(Cur)))
          /\ lastOp' = Op("stop", NULL)
          /\ inFlightAtStop' = inFlightAtStop \cup
                 {r \in requests : /\ r.kind = "prefetch"
                                   /\ \E s \in Sessions : pc[s] = "play" /\ r.id = idx[s] + 1}
     ELSE /\ sessionCount < MaxSessions
          /\ Commit(speakSentences(Cur, sessionCount + 1, 0))
          /\ lastOp' = Op("speakSentences", sessionCount + 1)
          /\ UNCHANGED inFlightAtStop

\* The cleanup of the mount effect: the flag is set, the element is paused and
\* dropped (its src is kept)
UnmountCleanup(st) ==
  IF st.audioRef = NULL THEN [st EXCEPT !.isCancelledRef = TRUE]
  ELSE [st EXCEPT !.isCancelledRef = TRUE,
                  !.audioState[st.audioRef] = "paused", !.audioRef = NULL]

\* A reset that toggles the flag instead of setting it
ResetStateToggling(st) ==
  SetIdle([ReleaseAudio([st EXCEPT !.isCancelledRef = ~@])
           EXCEPT !.audioCacheRef = EmptyCache,
                  !.preloadingRef = {},
                  !.isAnalyzing = FALSE,
                  !.sentencesForTTS = << >>])

\* A reset that keeps the cache and the in-flight set
ResetStateKeepingCache(st) ==
  SetIdle([ReleaseAudio([st EXCEPT !.isCancelledRef = TRUE])
           EXCEPT !.isAnalyzing = FALSE,
                  !.sentencesForTTS = << >>])

\* handleReset body
ResetState(st) ==
  SetIdle([ReleaseAudio([st EXCEPT !.isCancelledRef = TRUE])
           EXCEPT !.audioCacheRef = EmptyCache,
                  !.preloadingRef = {},
                  !.isAnalyzing = FALSE,
                  !.sentencesForTTS = << >>])

\* handleReset (the button exists in the analysis view only)
handleReset ==
  /\ isAnalyzing
  /\ resetCount < MaxResets
  /\ Commit([ResetState(MarkCancelled(Cur)) EXCEPT !.resetCount = @ + 1])
  /\ lastOp' = Op("handleReset", NULL)
  /\ UNCHANGED inFlightAtStop

\* ---- asynchronous completions ----
Outcomes == {"resolved", "rejected"}

\* The inline request invocation s awaits
InlineOf(s) == CHOOSE r \in requests : r.kind = "inline" /\ r.sess = s

\* A continuation that plays the inline result without storing it
AfterInlineNotStoring(st, s, speech) ==
  IF st.isCancelledRef THEN EndLoop(st, s) ELSE playAudio(st, s, speech)

\* The Driver's continuation after `await synthesizeSpeech(...)` resolved
AfterInline(st, s, speech) ==
  IF st.isCancelledRef THEN EndLoop(st, s)
  ELSE LET st1 == [st EXCEPT !.audioCacheRef = CacheSet(@, st.idx[s], speech)]
       IN IF st1.isCancelledRef THEN EndLoop(st1, s)
          ELSE playAudio(st1, s, speech)

\* The inline synthesizeSpeech call of invocation s settles
InlineSettles(s, outcome) ==
  /\ pc[s] = "synth"
  /\ LET r == InlineOf(s)
         st == [Cur EXCEPT !.requests = @ \ {r}]
     IN IF outcome = "rejected"
        THEN Commit(CatchError(st, s, "synthesis"))
        ELSE Commit(AfterInline(st, s, Speech(r)))
  /\ lastOp' = Settled("InlineSettles", s, outcome)
  /\ UNCHANGED inFlightAtStop

\* A .then callback that stores the result whether or not playback was cancelled
PrefetchThenAlwaysStoring(st, id, speech) ==
  [st EXCEPT !.audioCacheRef = CacheSet(@, id, speech)]

\* .then callback of a prefetch request
PrefetchThen(st, id, speech) ==
  IF ~st.isCancelledRef
  THEN [st EXCEPT !.audioCacheRef = CacheSet(@, id, speech)]
  ELSE st

\* A .catch callback that ends playback
PrefetchCatchFatal(st, id) == SetIdle([st EXCEPT !.isCancelledRef = TRUE])

\* .catch callback of a prefetch request: console.error only
PrefetchCatch(st, id) == st

\* A .finally callback that leaves the index in place once cancelled
PrefetchFinallyUnlessCancelled(st, id) ==
  IF st.isCancelledRef THEN st ELSE [st EXCEPT !.preloadingRef = @ \ {id}]

\* .finally callback of a prefetch request
PrefetchFinally(st, id) == [st EXCEPT !.preloadingRef = @ \ {id}]

\* A prefetch synthesizeSpeech call settles: .then / .catch, then .finally
PrefetchSettles(r, outcome) ==
  /\ r \in requests
  /\ r.kind = "prefetch"
  /\ LET st == [Cur EXCEPT !.requests = @ \ {r}]
     IN IF outcome = "rejected"
        THEN Commit(PrefetchFinally(PrefetchCatch(st, r.id), r.id))
        ELSE Commit(PrefetchFinally(PrefetchThen(st, r.id, Speech(r)), r.id))
  /\ lastOp' = Settled("PrefetchSettles", NULL, outcome)
  /\ inFlightAtStop' = inFlightAtStop \ {r}

\* cleanup() inside playAudio for the audio element of invocation s
Cleanup(st, s) ==
  [st EXCEPT !.audioRef = NULL, !.audioState[s] = "none", !.audioSrc[s] = NoSpeech]

\* audio.onended: the audio of invocation s played to its end
AudioEnded(s) ==
  /\ pc[s] = "play"
  /\ audioState[s] = "playing"
  /\ Commit(LoopFrom(Emit(Cleanup(Cur, s), Event("ended", s, idx[s])), s, NextIndex(idx[s])))
  /\ lastOp' = Op("AudioEnded", s)
  /\ UNCHANGED inFlightAtStop

\* An error handler that rejects whether or not playback was cancelled
AfterAudioErrorAlwaysRejecting(st, s) == CatchError(st, s, "playback")

\* The settling of playAudio's promise on an error event or a rejected play()
AfterAudioError(st, s) ==
  IF st.isCancelledRef THEN LoopFrom(st, s, NextIndex(st.idx[s]))
  ELSE CatchError(st, s, "playback")

\* audio.onerror / audio.play() rejection for the audio of invocation s: a
\* playback error, or the consequence of pause() and src = ''
AudioError(s) ==
  /\ pc[s] = "play"
  /\ audioState[s] \in {"playing", "paused"}
  /\ Commit(AfterAudioError(Cleanup(Cur, s), s))
  /\ lastOp' = Op("AudioError", s)
  /\ UNCHANGED inFlightAtStop

Next ==
  \/ \E n \in DocLens : handleAnalyse(n)
  \/ handleReadAloud
  \/ handleReset
  \/ \E s \in Sessions, o \in Outcomes : InlineSettles(s, o)
  \/ \E r \in requests, o \in Outcomes : PrefetchSettles(r, o)
  \/ \E s \in Sessions : AudioEnded(s)
  \/ \E s \in Sessions : AudioError(s)

Spec == Init /\ [][Next]_vars

TypeOK ==
  /\ isSpeaking \in BOOLEAN
  /\ speakingSentenceId \in {NULL} \cup (0..MaxLen)
  /\ audioRef \in {NULL} \cup Sessions
  /\ preloadingRef \subseteq 0..MaxLen
  /\ DOMAIN audioCacheRef \subseteq 0..MaxLen
  /\ \A s \in Sessions : pc[s] \in {"new", "synth", "play", "done"}
  /\ lastOp.sess \in {NULL} \cup Sessions
  /\ inFlightAtStop \subseteq requests
  /\ Len(events) <= PRELOAD_AHEAD_COUNT + 3

\* ---- what an invocation does in a step ----
PrefetchRequests == {r \in requests : r.kind = "prefetch"}
InlineRequests == {r \in requests : r.kind = "inline"}

\* Invocation s sets now-playing, issues an inline request or starts an audio
\* element in the step
Acts(s) ==
  \/ Len(nowSeq'[s]) > Len(nowSeq[s])
  \/ Len(played'[s]) > Len(played[s])
  \/ \E r \in requests' \ requests : r.kind = "inline" /\ r.sess = s

\* C1: exactly one playback session is active at a time: once a new session
\* has been started, no earlier invocation of speakSentences sets now-playing,
\* synthesizes or plays again; only the latest invocation ever acts.
C1_OnlyLatestSessionActs ==
  [][\A s \in Sessions : Acts(s) => s = sessionCount']_vars

\* C2: once stop or reset hit an invocation at segment i, that invocation
\* plays no segment with an index greater than i.
C2_NoProgressAfterCancel ==
  \A s \in Sessions :
    cancelledAt[s] # NULL =>
      \A k \in 1..Len(played[s]) : played[s][k] <= cancelledAt[s]

\* C3: a synthesis request issued before the latest handleReset never writes
\* audioCacheRef when it settles.
C3_NoStaleCacheWrite ==
  [][\A r \in requests \ requests' :
       r.issuedAt < resetCount => audioCacheRef' = audioCacheRef]_vars

\* C4: within one invocation the values given to setSpeakingSentenceId are
\* 0, 1, 2, ... from the start index 0 without gap or repeat, and the segments
\* played are the same indices in the same order.
C4_SequentialOrder ==
  \A s \in Sessions :
    LET n == Len(nowSeq[s])
        p == Len(played[s])
    IN /\ \A k \in 1..n : nowSeq[s][k] = k - 1
       /\ p \in {n - 1, n}
       /\ p >= 0
       /\ \A k \in 1..p : played[s][k] = nowSeq[s][k]
       /\ pc[s] = "play" => p = n
       /\ pc[s] = "synth" => p = n - 1

\* C4 witness: the second invocation has played every segment of the document,
\* the last one from a prefetched cache entry
C4_Witness ==
  /\ played[2] = [k \in 1..MaxLen |-> k - 1]
  /\ InlineRequests = {}
  /\ pc[2] = "play"

\* C5: a rejected synthesis or playback of the active segment halts the
\* invocation: in that step it returns without issuing any request, and an
\* invocation that has returned never sets now-playing, synthesizes inline or
\* plays again.
C5_FailureHalts ==
  [][\A s \in Sessions :
       LET fails == \E f \in rejected' : f.sess = s
       IN /\ fails => requests' \subseteq requests
          /\ (fails \/ pc[s] = "done") => (pc'[s] = "done" /\ ~Acts(s))]_vars

\* C5 witness: the synthesis of segment 1 was rejected after segment 0 had
\* been synthesized and played; segment 2 exists and was never attempted
C5_Witness ==
  /\ rejected = {[sess |-> 1, id |-> 1, what |-> "synthesis"]}
  /\ CacheHas(audioCacheRef, 0)
  /\ ~CacheHas(audioCacheRef, 1)
  /\ pc[1] = "done"
  /\ sessionCount = 1
  /\ MaxLen > 2

\* C6: when synthesis or playback of the active segment is rejected in an
\* invocation that was not cancelled, that step shows exactly one alert, for
\* that invocation, leaves isSpeaking false and now-playing none, ends the
\* invocation and keeps every cache entry.
C6_FailureEndsIdleWithOneAlert ==
  [][\A s \in Sessions :
       ((\E f \in rejected' : f.sess = s) /\ cancelledAt[s] = NULL) =>
         /\ alerted' = {s}
         /\ Cardinality(rejected') = 1
         /\ isSpeaking' = FALSE
         /\ speakingSentenceId' = NULL
         /\ pc'[s] = "done"
         /\ \A k \in DOMAIN audioCacheRef :
              CacheHas(audioCacheRef', k) /\ audioCacheRef'[k] = audioCacheRef[k]]_vars

\* C6 witness: the only invocation so far, never cancelled, had the playback
\* of segment 1 fail after segment 0 completed
C6_Witness ==
  /\ rejected = {[sess |-> 1, id |-> 1, what |-> "playback"]}
  /\ alerted = {1}
  /\ sessionCount = 1
  /\ resetCount = 0
  /\ ~isCancelledRef
  /\ CacheHas(audioCacheRef, 0)

\* C7: no second prefetch request is issued for a segment while an earlier
\* prefetch request for it is unresolved: at most one prefetch request per
\* segment is outstanding.
C7_OnePrefetchPerSegment ==
  \A r1, r2 \in PrefetchRequests : r1.text = r2.text => r1 = r2

\* C8 as claimed: the Driver issues no inline request for a segment whose
\* prefetch request is in flight.
C8_NoInlineWhilePrefetching ==
  \A r1 \in InlineRequests, r2 \in PrefetchRequests : r1.text # r2.text

\* C8 as amended: preloadingRef guards prefetch requests only.  A prefetch
\* request is issued only for an index that is not in preloadingRef; an inline
\* request is issued whenever the index has no cache entry, whether or not it
\* is in preloadingRef; an invocation awaits at most one inline request.
C8_InFlightSetGuardsPrefetchOnly ==
  [][/\ \A r \in requests' \ requests :
          /\ r.kind = "prefetch" => r.id \notin preloadingRef
          /\ r.kind = "inline" => ~CacheHas(audioCacheRef, r.id)
     /\ \A s \in Sessions :
          Cardinality({r \in requests' : r.kind = "inline" /\ r.sess = s}) <= 1]_vars

\* C8 witness: with one invocation and no reset, the Driver awaits its inline
\* request for a segment whose prefetch request is still in flight
C8_Witness ==
  /\ sessionCount = 1
  /\ resetCount = 0
  /\ \E r1 \in InlineRequests, r2 \in PrefetchRequests :
       r1.text = r2.text /\ r1.id \in preloadingRef

\* C9 as claimed: no index is at once a key of audioCacheRef and a member of
\* preloadingRef.
C9_CacheAndInFlightDisjoint ==
  preloadingRef \cap DOMAIN audioCacheRef = {}

\* C9 as amended: an index comes to be in both only in a step in which an
\* inline request for that index resolves and is stored while the index is
\* still in preloadingRef; the preload loop never adds an index that has a
\* cache entry.
C9_OverlapOnlyByInlineStore ==
  [][/\ \A j \in (preloadingRef' \cap DOMAIN audioCacheRef') \
                 (preloadingRef \cap DOMAIN audioCacheRef) :
          /\ j \in preloadingRef
          /\ \E r \in requests \ requests' : r.kind = "inline" /\ r.id = j
     /\ \A j \in preloadingRef' \ preloadingRef : ~CacheHas(audioCacheRef', j)]_vars

\* C9 witness: with one invocation and no reset, index 1 is cached and in
\* preloadingRef
C9_Witness ==
  /\ sessionCount = 1
  /\ resetCount = 0
  /\ 1 \in preloadingRef
  /\ CacheHas(audioCacheRef, 1)

\* C10 as claimed: an index leaves preloadingRef only in the step in which a
\* prefetch request for it settles, and it does leave it then.
C10_RemovedOnlyOnSettle ==
  [][/\ \A j \in preloadingRef \ preloadingRef' :
          \E r \in requests \ requests' : r.kind = "prefetch" /\ r.id = j
     /\ \A r \in requests \ requests' :
          r.kind = "prefetch" => r.id \notin preloadingRef']_vars

\* C10 as amended: an index leaves preloadingRef only when a prefetch request
\* for that index settles or when handleReset clears the set; every settling
\* prefetch request leaves its index out of the set, whatever its outcome and
\* whether or not playback was cancelled.
C10_RemovedOnSettleOrReset ==
  [][/\ \A j \in preloadingRef \ preloadingRef' :
          \/ resetCount' = resetCount + 1
          \/ \E r \in requests \ requests' : r.kind = "prefetch" /\ r.id = j
     /\ \A r \in requests \ requests' :
          r.kind = "prefetch" => r.id \notin preloadingRef']_vars

\* C10 witness: after a reset a prefetch request is still unresolved although
\* preloadingRef no longer holds its index, and playback is cancelled
C10_Witness ==
  /\ resetCount = 1
  /\ isCancelledRef
  /\ \E r \in PrefetchRequests : r.issuedAt = 0 /\ r.id \notin preloadingRef

\* C11: an error event or a rejected play() of an audio element that arrives
\* while isCancelledRef is set resolves playAudio instead of rejecting it: the
\* step records no rejection and shows no alert, and the invocation ends with
\* isSpeaking false, now-playing none and audioRef empty.
C11_CancelledAudioErrorIsQuiet ==
  \A s \in Sessions :
    (lastOp = Op("AudioError", s) /\ isCancelledRef) =>
      /\ rejected = {}
      /\ alerted = {}
      /\ pc[s] = "done"
      /\ ~isSpeaking
      /\ speakingSentenceId = NULL
      /\ audioRef = NULL

\* C11 witness: the user stopped the only invocation while its audio was
\* playing, and the paused element then delivered its error
C11_Witness ==
  /\ lastOp = Op("AudioError", 1)
  /\ isCancelledRef
  /\ sessionCount = 1
  /\ resetCount = 0
  /\ pc[1] = "done"
  /\ audioState[1] = "none"

\* C12, stop while segment i is playing, in three parts.  (a) The stop step
\* leaves now-playing at i, with isSpeaking false and the flag set.  (b) An
\* invocation whose audio element was paused never starts another element.
\* (c) A prefetch request for i+1 that was pending at the stop leaves
\* audioCacheRef unchanged when it settles.
C12_StopKeepsIndexAndDiscardsPrefetch ==
  [][/\ \A s \in Sessions :
          (/\ lastOp' = Op("stop", NULL)
           /\ pc[s] = "play"
           /\ audioState[s] = "playing"
           /\ speakingSentenceId = idx[s]) =>
            /\ speakingSentenceId' = idx[s]
            /\ ~isSpeaking'
            /\ isCancelledRef'
     /\ \A s \in Sessions :
          (pc[s] = "play" /\ audioState[s] = "paused") => played'[s] = played[s] \/ played'[s] = << >>
     /\ \A r \in inFlightAtStop \ requests' : audioCacheRef' = audioCacheRef]_vars

\* C13: a synthesizeSpeech call that settles while isCancelledRef is set
\* changes neither audioCacheRef nor any audio element and starts no audio,
\* whether it was a prefetch or the Driver's inline call; stop and reset leave
\* every pending call pending.
C13_ResultDiscardedWhileCancelled ==
  [][/\ (isCancelledRef /\ lastOp'.op \in {"InlineSettles", "PrefetchSettles"}) =>
          /\ audioCacheRef' = audioCacheRef
          /\ audioState' = audioState
          /\ audioRef' \in {audioRef, NULL}
          /\ \A s \in Sessions : ~Acts(s)
     /\ lastOp'.op \in {"stop", "handleReset"} => requests' = requests]_vars

\* C13 witness: the only invocation was stopped while it awaited the synthesis
\* of sentence 0; a prefetch request then resolved and was not cached, and
\* other calls are still pending
C13_Witness ==
  /\ lastOp = Settled("PrefetchSettles", NULL, "resolved")
  /\ isCancelledRef
  /\ sessionCount = 1
  /\ resetCount = 0
  /\ audioCacheRef = EmptyCache
  /\ InlineRequests # {}

\* C14: a prefetch request that is rejected leaves its index out of
\* preloadingRef and changes nothing else: no cache entry, no alert, no
\* rejection of an awaited promise, no change of any invocation's position, of
\* isSpeaking, of now-playing or of the flag.  An invocation that sets
\* now-playing to an index without a cache entry awaits an inline request for it.
C14_FailedPrefetchNonFatal ==
  [][/\ lastOp' = Settled("PrefetchSettles", NULL, "rejected") =>
          /\ \A r \in requests \ requests' : r.id \notin preloadingRef'
          /\ preloadingRef' \subseteq preloadingRef
          /\ audioCacheRef' = audioCacheRef
          /\ alerted' = {}
          /\ rejected' = {}
          /\ pc' = pc
          /\ isSpeaking' = isSpeaking
          /\ speakingSentenceId' = speakingSentenceId
          /\ isCancelledRef' = isCancelledRef
     /\ \A s \in Sessions :
          LET n == Len(nowSeq'[s]) IN
          (n > Len(nowSeq[s]) /\ ~CacheHas(audioCacheRef', nowSeq'[s][n])) =>
            /\ pc'[s] = "synth"
            /\ \E r \in requests' :
                 r.kind = "inline" /\ r.sess = s /\ r.id = nowSeq'[s][n]]_vars

\* C14 witness: in the only invocation, never cancelled, the audio of sentence
\* 0 ended and the Driver awaits an inline request for sentence 1, whose
\* prefetch request failed: index 1 is neither cached nor in preloadingRef
C14_Witness ==
  /\ lastOp = Op("AudioEnded", 1)
  /\ sessionCount = 1
  /\ resetCount = 0
  /\ ~isCancelledRef
  /\ pc[1] = "synth"
  /\ idx[1] = 1
  /\ 1 \notin preloadingRef
  /\ ~CacheHas(audioCacheRef, 1)
  /\ \E r \in InlineRequests : r.id = 1

\* C15: speakSentences called with a start index that is not below the number
\* of sentences issues no synthesizeSpeech call, starts and changes no audio
\* element, leaves isCancelledRef, audioCacheRef and preloadingRef as they
\* were, starts no invocation of the loop, and leaves isSpeaking false and
\* now-playing none.
C15_OutOfRangeStartIsNoOp ==
  [][(lastOp'.op = "speakSentences" /\ 0 >= Len(sentencesForTTS)) =>
       /\ requests' = requests
       /\ audioState' = audioState
       /\ audioRef' = audioRef
       /\ isCancelledRef' = isCancelledRef
       /\ audioCacheRef' = audioCacheRef
       /\ preloadingRef' = preloadingRef
       /\ pc' = pc
       /\ sessionCount' = sessionCount
       /\ ~isSpeaking'
       /\ speakingSentenceId' = NULL]_vars

\* C15 witness: Read Aloud was pressed on a document without sentences that
\* was analysed after a reset, so isCancelledRef was set and stays set
C15_Witness ==
  /\ lastOp.op = "speakSentences"
  /\ isAnalyzing
  /\ sentencesForTTS = << >>
  /\ isCancelledRef
  /\ resetCount = 1

\* C16: handleReset leaves audioCacheRef and preloadingRef empty, and both are
\* empty whenever the input view is shown and when handleAnalyse has just
\* installed a sentence list.
C16_EmptyOnResetAndAnalyse ==
  /\ lastOp.op = "handleReset" => (audioCacheRef = EmptyCache /\ preloadingRef = {})
  /\ ~isAnalyzing => (audioCacheRef = EmptyCache /\ preloadingRef = {})
  /\ lastOp.op = "handleAnalyse" => (audioCacheRef = EmptyCache /\ preloadingRef = {})

\* C16 witness: a second document has just been installed while calls issued
\* for the first one are still pending
C16_Witness ==
  /\ lastOp.op = "handleAnalyse"
  /\ resetCount = 1
  /\ Len(sentencesForTTS) = MaxLen
  /\ PrefetchRequests # {}
  /\ InlineRequests # {}
  /\ audioCacheRef = EmptyCache
  /\ preloadingRef = {}

\* C17: in every reachable state at most one audio element created by
\* playAudio is playing, and audioRef holds it whenever one is playing.
C17_SingleAudioOwnedByRef ==
  /\ Cardinality({s \in Sessions : audioState[s] = "playing"}) <= 1
  /\ \A s \in Sessions : audioState[s] = "playing" => audioRef = s

\* C18: the stop branch of handleReadAloud and handleReset leave isCancelledRef
\* set, the element audioRef held paused, audioRef empty, isSpeaking false and
\* now-playing none; and every step in which an invocation's loop ends, by
\* completion, cancellation or failure, leaves isSpeaking false, now-playing
\* none and audioRef empty.
C18_IdleAfterStopResetAndLoopEnd ==
  [][/\ lastOp'.op \in {"stop", "handleReset"} =>
          /\ isCancelledRef'
          /\ audioRef # NULL => audioState'[audioRef] = "paused"
          /\ audioRef' = NULL
          /\ ~isSpeaking'
          /\ speakingSentenceId' = NULL
     /\ \A s \in Sessions :
          (pc[s] # "done" /\ pc'[s] = "done") =>
            /\ audioRef' = NULL
            /\ ~isSpeaking'
            /\ speakingSentenceId' = NULL]_vars

\* C18 witness: Stop has just interrupted a playing segment: its element is
\* paused and the invocation is still suspended in playAudio
C18_Witness ==
  /\ lastOp.op = "stop"
  /\ \E s \in Sessions : audioState[s] = "paused" /\ pc[s] = "play"
  /\ isCancelledRef
  /\ audioRef = NULL
  /\ ~isSpeaking
  /\ speakingSentenceId = NULL

\* C19: the calls an invocation makes in one step come in this order.
\* setSpeakingSentenceId(k) is the first call of the invocation when k = 0 and
\* otherwise directly follows the ended event of segment k-1; it is followed
\* by the prefetch requests, all for indices in k+1..k+2 and in ascending
\* order, and then by exactly one of the inline request for k or play() for
\* k, after which the step ends.  play() for k otherwise happens only when
\* the inline request resolved.  The ended event of segment k is followed by
\* setSpeakingSentenceId(k+1) when k+1 is a segment and playback was not
\* cancelled, and by the return to idle otherwise.
C19_EventOrder ==
  LET L == Len(events) IN
  \A p \in 1..L :
    LET s == events[p][2]
        k == events[p][3]
    IN /\ events[p][1] = "now" =>
            /\ IF k = 0 THEN p = 1 /\ lastOp = Op("speakSentences", s)
                        ELSE p = 2 /\ events[1] = Event("ended", s, k - 1)
            /\ L > p
            /\ events[L] \in {Event("synth", s, k), Event("play", s, k)}
            /\ \A q \in (p + 1)..(L - 1) :
                 /\ events[q][1] = "prefetch"
                 /\ events[q][2] = s
                 /\ events[q][3] \in (k + 1)..(k + PRELOAD_AHEAD_COUNT)
                 /\ q + 1 <= L - 1 => events[q][3] < events[q + 1][3]
       /\ events[p][1] = "play" =>
            /\ p = L
            /\ \/ p = 1 /\ lastOp = Settled("InlineSettles", s, "resolved")
               \/ \E q \in 1..(p - 1) : events[q] = Event("now", s, k)
       /\ events[p][1] \in {"prefetch", "synth"} =>
            \E q \in 1..(p - 1) : events[q][1] = "now" /\ events[q][2] = s
       /\ events[p][1] = "ended" =>
            /\ p = 1
            /\ L >= 2
            /\ IF k + 1 < MaxLen /\ ~isCancelledRef
               THEN events[2] = Event("now", s, k + 1)
               ELSE events = <<Event("ended", s, k), Event("idle", s, NULL)>>

\* C19 witness: in the only invocation the audio of sentence 0 ended, then
\* now-playing became 1, the prefetch request for 2 was issued and sentence 1
\* was played from its cache entry
C19_Witness ==
  /\ events = <<Event("ended", 1, 0), Event("now", 1, 1),
                Event("prefetch", 1, 2), Event("play", 1, 1)>>
  /\ sessionCount = 1
  /\ resetCount = 0

\* C20: in the step in which an invocation sets now-playing to i, the prefetch
\* requests it issues are exactly those for the indices j with i < j <= i + 2
\* and j < number of sentences that had neither a cache entry nor a member of
\* preloadingRef, each for the text of sentence j, and each j is added to
\* preloadingRef; no prefetch request is issued in any other step.
C20_PrefetchWindow ==
  [][LET new == {r \in requests' \ requests : r.kind = "prefetch"}
         now == {s \in Sessions : Len(nowSeq'[s]) > Len(nowSeq[s])}
     IN /\ new # {} => now # {}
        /\ \A s \in now :
             LET i == nowSeq'[s][Len(nowSeq'[s])]
                 n == Len(sent'[s])
                 window == {j \in 0..(n - 1) :
                              /\ i < j
                              /\ j <= i + 2
                              /\ ~CacheHas(audioCacheRef, j)
                              /\ j \notin preloadingRef}
             IN /\ {r.id : r \in new} = window
                /\ Cardinality(new) = Cardinality(window)
                /\ \A r \in new : r.text = sent'[s][r.id + 1]
                /\ window \subseteq preloadingRef']_vars

\* C20 witness: the invocation set now-playing to 1 and issued a prefetch
\* request for 2 alone, index 1 being cached; none is pending for any other index
C20_Witness ==
  /\ lastOp = Op("AudioEnded", 1)
  /\ speakingSentenceId = 1
  /\ CacheHas(audioCacheRef, 1)
  /\ {r.id : r \in PrefetchRequests} = {2}
  /\ preloadingRef = {2}
  /\ sessionCount = 1
  /\ resetCount = 0
  /\ events[3] = Event("prefetch", 1, 2)

\* C21: when an invocation sets now-playing to i and audioCacheRef has an
\* entry for i, it issues no inline request and in the same step starts an
\* audio element created from that entry; when there is no entry it issues an
\* inline request for the text of sentence i and suspends.  When its inline
\* request resolves while isCancelledRef is clear, the result is the cache
\* entry for i after the step and the element started is created from it.
C21_AudioResolution ==
  [][\A s \in Sessions :
       /\ Len(nowSeq'[s]) > Len(nowSeq[s]) =>
            LET i == nowSeq'[s][Len(nowSeq'[s])]
                inline == {r \in requests' \ requests : r.kind = "inline"}
            IN IF CacheHas(audioCacheRef, i)
               THEN /\ inline = {}
                    /\ pc'[s] = "play"
                    /\ audioState'[s] = "playing"
                    /\ audioSrc'[s] = audioCacheRef[i]
                    /\ audioCacheRef' = audioCacheRef
               ELSE /\ \E r \in inline :
                         /\ inline = {r}
                         /\ r.sess = s
                         /\ r.id = i
                         /\ r.text = sent'[s][i + 1]
                    /\ pc'[s] = "synth"
                    /\ audioState'[s] # "playing"
       /\ (lastOp' = Settled("InlineSettles", s, "resolved") /\ ~isCancelledRef) =>
            /\ CacheHas(audioCacheRef', idx[s])
            /\ \E r \in requests \ requests' : audioCacheRef'[idx[s]] = Speech(r)
            /\ audioSrc'[s] = audioCacheRef'[idx[s]]
            /\ audioState'[s] = "playing"
            /\ pc'[s] = "play"]_vars

\* C21 witness: the invocation reached sentence 1, found its cache entry,
\* issued no inline request and plays the entry
C21_Witness ==
  /\ lastOp = Op("AudioEnded", 1)
  /\ pc[1] = "play"
  /\ idx[1] = 1
  /\ audioSrc[1] = audioCacheRef[1]
  /\ InlineRequests = {}
  /\ sessionCount = 1

\* C22: in a step that starts with isCancelledRef set, other than a new call
\* of speakSentences (which clears the flag first), no invocation sets
\* now-playing, no synthesizeSpeech call of either kind is issued and no audio
\* element is created or started; an invocation resumed in such a step, after
\* its synthesis resolved or after its playback settled, returns.
C22_NothingStartsWhileCancelled ==
  [][(isCancelledRef /\ lastOp'.op # "speakSentences") =>
       /\ \A s \in Sessions : ~Acts(s)
       /\ requests' \subseteq requests
       /\ speakingSentenceId' \in {speakingSentenceId, NULL}
       /\ \A s \in Sessions :
            /\ audioState'[s] = "playing" => audioState[s] = "playing"
            /\ audioSrc'[s] \in {audioSrc[s], NoSpeech}
            /\ pc'[s] # pc[s] => pc'[s] = "done"
            /\ lastOp'.sess = s => pc'[s] = "done"]_vars

\* C22 witness: the only invocation was stopped while it awaited its inline
\* synthesis of sentence 0; the synthesis resolved and the invocation returned
\* without storing or playing anything
C22_Witness ==
  /\ lastOp = Settled("InlineSettles", 1, "resolved")
  /\ isCancelledRef
  /\ events = <<Event("idle", 1, NULL)>>
  /\ pc[1] = "done"
  /\ audioCacheRef = EmptyCache
  /\ sessionCount = 1
  /\ resetCount = 0

\* C23 as claimed: an index gets a cache entry only from being in
\* preloadingRef, enters preloadingRef only from being absent from both, and
\* loses its cache entry in a handleReset step only.
C23_AbsentInFlightCached ==
  [][\A j \in 0..MaxLen :
       /\ (CacheHas(audioCacheRef', j) /\ ~CacheHas(audioCacheRef, j)) => j \in preloadingRef
       /\ (j \in preloadingRef' /\ j \notin preloadingRef) => ~CacheHas(audioCacheRef, j)
       /\ (CacheHas(audioCacheRef, j) /\ ~CacheHas(audioCacheRef', j)) =>
            lastOp'.op = "handleReset"]_vars

\* C23 as amended: an index gets a cache entry only in a step in which a
\* synthesizeSpeech call for that index, prefetch or inline, resolves while
\* isCancelledRef is clear, and the entry is that call's result, whether or
\* not the index is in preloadingRef; an index enters preloadingRef only when
\* it has no cache entry, together with a prefetch request for it; it leaves
\* preloadingRef only when a prefetch request for it settles or in a
\* handleReset step; a cache entry is removed in a handleReset step only.
C23_MonotoneCacheAndInFlight ==
  [][\A j \in 0..MaxLen :
       /\ (CacheHas(audioCacheRef', j) /\ ~CacheHas(audioCacheRef, j)) =>
            /\ ~isCancelledRef
            /\ lastOp'.outcome = "resolved"
            /\ \E r \in requests \ requests' :
                 r.id = j /\ audioCacheRef'[j] = Speech(r)
       /\ (j \in preloadingRef' /\ j \notin preloadingRef) =>
            /\ ~CacheHas(audioCacheRef, j)
            /\ \E r \in requests' \ requests : r.kind = "prefetch" /\ r.id = j
       /\ (j \in preloadingRef /\ j \notin preloadingRef') =>
            \/ lastOp'.op = "handleReset"
            \/ \E r \in requests \ requests' : r.kind = "prefetch" /\ r.id = j
       /\ (CacheHas(audioCacheRef, j) /\ ~CacheHas(audioCacheRef', j)) =>
            lastOp'.op = "handleReset"]_vars

\* C23 witness: sentence 0, which is never prefetched, got its cache entry
\* from the inline request while sentences 1 and 2 are in preloadingRef
C23_Witness ==
  /\ lastOp = Settled("InlineSettles", 1, "resolved")
  /\ idx[1] = 0
  /\ DOMAIN audioCacheRef = {0}
  /\ preloadingRef = {1, 2}
  /\ sessionCount = 1
  /\ resetCount = 0

\* ---- playback that is never stopped and never fails ----
\* Read Aloud pressed while idle
StartReading == ~isSpeaking /\ handleReadAloud

\* No stop, no reset, no rejected inline synthesis, no playback error;
\* prefetch requests may resolve, fail or stay pending for ever
LiveNext ==
  \/ \E n \in DocLens : handleAnalyse(n)
  \/ StartReading
  \/ \E s \in Sessions : InlineSettles(s, "resolved")
  \/ \E r \in requests, o \in Outcomes : PrefetchSettles(r, o)
  \/ \E s \in Sessions : AudioEnded(s)

\* Every inline request eventually resolves and every audio element
\* eventually plays to its end; nothing is assumed about prefetch requests
LiveSpec ==
  /\ Init
  /\ [][LiveNext]_vars
  /\ WF_vars(\E s \in Sessions : InlineSettles(s, "resolved"))
  /\ WF_vars(\E s \in Sessions : AudioEnded(s))

C25_AtMostOneInlinePlusK ==
  /\ Cardinality(InlineRequests) <= 1
  /\ Cardinality(PrefetchRequests) <= PRELOAD_AHEAD_COUNT

\* C25 as amended: a step issues at most PRELOAD_AHEAD_COUNT prefetch requests
\* and at most one inline request; an invocation has an inline request
\* outstanding exactly while it awaits one, and then exactly one, for its
\* active sentence.  The number of outstanding requests as a whole is not
\* bounded by these.
C25_PerStepAndPerInvocationBounds ==
  [][/\ Cardinality({r \in requests' \ requests : r.kind = "prefetch"}) <= PRELOAD_AHEAD_COUNT
     /\ Cardinality({r \in requests' \ requests : r.kind = "inline"}) <= 1
     /\ \A s \in Sessions :
          LET mine == {r \in requests' : r.kind = "inline" /\ r.sess = s}
          IN IF pc'[s] = "synth"
             THEN \E r \in mine : mine = {r} /\ r.id = idx'[s] /\ r.text = sent'[s][idx'[s] + 1]
             ELSE mine = {}]_vars

\* C25 witness: after reset and a new start, the calls of the first document
\* are still pending beside those of the second: two inline and four prefetch
\* requests are outstanding
C25_Witness ==
  /\ Cardinality(InlineRequests) = 2
  /\ Cardinality(PrefetchRequests) = 2 * PRELOAD_AHEAD_COUNT
  /\ resetCount = 1

\* ======== the Web Speech variant of App (src/unnamed/part_002) ========
\* What speechSynthesis.cancel() makes of the utterances it removes is left to
\* the browser: the utterance being spoken gets an end or an error event, the
\* queued ones get the same kind of event or none.
CancelModes == {<<"end", "none">>, <<"end", "end">>, <<"error", "none">>, <<"error", "error">>}

\* setIsSpeaking(false); setSpeakingSentenceId(null)
WsIdle(w) == [w EXCEPT !.isSpeaking = FALSE, !.speakingSentenceId = NULL]

\* new SpeechSynthesisUtterance(sentences[index].text) with the handlers of
\* the closure that has speechRate = rate and n sentences
Utterance(index, rate, n) == [index |-> index, rate |-> rate, n |-> n, started |-> FALSE]

\* speakNext of the closure (rate, n)
speakNext(w, rate, n) ==
  LET index == w.currentSentenceIndexRef IN
  IF index >= n THEN WsIdle(w)
  ELSE [w EXCEPT !.queue = Append(@, Utterance(index, rate, n))]

\* The events speechSynthesis.cancel() queues for the utterances it removes
CancelEvents(queue, mode) ==
  LET hit == SelectSeq(queue, LAMBDA u : u.started \/ mode[2] # "none")
  IN [k \in 1..Len(hit) |->
        [kind |-> IF hit[k].started THEN mode[1] ELSE mode[2],
         rate |-> hit[k].rate, n |-> hit[k].n]]

\* speechSynthesis.cancel()
cancel(w, mode) ==
  [w EXCEPT !.queue = << >>, !.pending = @ \o CancelEvents(w.queue, mode)]

\* utterance.onend of the closure (rate, n)
onend(w, rate, n) == speakNext([w EXCEPT !.currentSentenceIndexRef = @ + 1], rate, n)

\* utterance.onerror
onerror(w) == WsIdle(w)

\* speakSentences(startIndex) of the current render
WsSpeakSentences(w, startIndex, mode) ==
  IF startIndex >= Len(w.sentences) THEN WsIdle(w)
  ELSE speakNext([cancel(w, mode) EXCEPT !.currentSentenceIndexRef = startIndex,
                                         !.spoken = << >>],
                 w.speechRate, Len(w.sentences))

\* sentences.find(s => s.id === id) finds a sentence
IsSentenceId(sentences, id) == \E k \in 1..Len(sentences) : sentences[k] = id

\* sentences.find(s => s.id === id), then indexOf, 0 when there is none
IndexOfId(sentences, id) ==
  IF IsSentenceId(sentences, id)
  THEN (CHOOSE k \in 1..Len(sentences) : sentences[k] = id) - 1
  ELSE 0

\* An effect that restarts from the first sentence
ResumeEffectFromTop(w, mode) ==
  IF w.isSpeaking
  THEN IF 0 < Len(w.sentences)
       THEN [WsSpeakSentences(w, 0, mode) EXCEPT !.resumeAt = 0]
       ELSE WsSpeakSentences(w, 0, mode)
  ELSE w

\* The effect on [speechRate, selectedVoice, sentences, speakSentences], run
\* after mount (hasMounted is true)
ResumeEffect(w, mode) ==
  IF w.isSpeaking
  THEN LET sentenceIndex == IndexOfId(w.sentences, w.speakingSentenceId)
       IN IF sentenceIndex < Len(w.sentences)
          THEN [WsSpeakSentences(w, sentenceIndex, mode) EXCEPT !.resumeAt = sentenceIndex]
          ELSE WsSpeakSentences(w, sentenceIndex, mode)
  ELSE w

\* handleAnalyse, then the effect (sentences changed)
WsHandleAnalyse(n, mode) ==
  /\ ~ws.isAnalyzing
  /\ ws' = [ResumeEffect([ws EXCEPT !.sentences = [k \in 1..n |-> k - 1],
                                    !.isAnalyzing = TRUE], mode)
            EXCEPT !.op = "handleAnalyse"]
  /\ UNCHANGED <<appVars, rt, pr, tt>>

\* handleReadAloud
WsHandleReadAloud(mode) ==
  /\ ws.isAnalyzing
  /\ IF ws.isSpeaking
     THEN ws' = [WsIdle(cancel(ws, mode))
                 EXCEPT !.resumeAt = NULL, !.stopped = TRUE, !.op = "stop"]
     ELSE /\ ws.starts < MaxSessions
          /\ ws' = [WsSpeakSentences(ws, 0, mode)
                    EXCEPT !.resumeAt = NULL, !.stopped = FALSE, !.starts = @ + 1,
                           !.op = "speakSentences"]
  /\ UNCHANGED <<appVars, rt, pr, tt>>

\* onRateChange / handleVoiceChange, then the effect (the configuration changed)
WsSetSpeechRate(mode) ==
  /\ ws.isAnalyzing
  /\ ws.speechRate < MaxRateChanges
  /\ ws' = [ResumeEffect([ws EXCEPT !.speechRate = @ + 1], mode)
            EXCEPT !.op = IF ws.isSpeaking /\ IsSentenceId(ws.sentences, ws.speakingSentenceId)
                          THEN "resume" ELSE "setSpeechRate"]
  /\ UNCHANGED <<appVars, rt, pr, tt>>

\* handleReset; the effect then finds isSpeaking false
WsHandleReset(mode) ==
  /\ ws.isAnalyzing
  /\ ws.resets < MaxResets
  /\ ws' = [WsIdle(cancel(ws, mode)) EXCEPT !.isAnalyzing = FALSE, !.sentences = << >>,
                                           !.resets = @ + 1, !.resumeAt = NULL,
                                           !.op = "handleReset"]
  /\ UNCHANGED <<appVars, rt, pr, tt>>

\* The first utterance of the queue begins to be spoken: utterance.onstart
UtteranceStarts ==
  /\ ws.queue # << >>
  /\ ~ws.queue[1].started
  /\ ws' = [ws EXCEPT !.queue[1].started = TRUE,
                      !.isSpeaking = TRUE,
                      !.speakingSentenceId = ws.queue[1].index,
                      !.spoken = Append(@, ws.queue[1].index),
                      !.op = "onstart"]
  /\ UNCHANGED <<appVars, rt, pr, tt>>

\* The utterance being spoken reaches its end: utterance.onend
UtteranceEnds ==
  /\ ws.queue # << >>
  /\ ws.queue[1].started
  /\ ws' = [onend([ws EXCEPT !.queue = Tail(@)], ws.queue[1].rate, ws.queue[1].n)
            EXCEPT !.op = "onend"]
  /\ UNCHANGED <<appVars, rt, pr, tt>>

\* The utterance being spoken fails: utterance.onerror
UtteranceFails ==
  /\ ws.queue # << >>
  /\ ws.queue[1].started
  /\ ws' = [onerror([ws EXCEPT !.queue = Tail(@)]) EXCEPT !.op = "onerror"]
  /\ UNCHANGED <<appVars, rt, pr, tt>>

\* The event of a cancelled utterance is dispatched to its handler
DispatchCancelled ==
  /\ ws.pending # << >>
  /\ LET e == ws.pending[1]
         w == [ws EXCEPT !.pending = Tail(@)]
     IN ws' = [(IF e.kind = "end" THEN onend(w, e.rate, e.n) ELSE onerror(w))
               EXCEPT !.op = "cancelled"]
  /\ UNCHANGED <<appVars, rt, pr, tt>>

WsNext ==
  \/ \E n \in DocLens, mode \in CancelModes : WsHandleAnalyse(n, mode)
  \/ \E mode \in CancelModes : WsHandleReadAloud(mode)
  \/ \E mode \in CancelModes : WsSetSpeechRate(mode)
  \/ \E mode \in CancelModes : WsHandleReset(mode)
  \/ UtteranceStarts
  \/ UtteranceEnds
  \/ UtteranceFails
  \/ DispatchCancelled

WsSpec == Init /\ [][WsNext]_vars

\* C26: in the Web Speech variant, a change of speechRate or selectedVoice
\* while isSpeaking is true and sentence s is now-playing calls
\* speakSentences(index of s): the queue then holds one utterance, for s, with
\* the new configuration, and the utterances that start from then on, until
\* speakSentences is called again or the user stops or resets, are s, s+1,
\* s+2, ... once each.
C26_ResumeFromCurrentSentence ==
  /\ ws.op = "resume" =>
       /\ ws.resumeAt = ws.speakingSentenceId
       /\ ws.currentSentenceIndexRef = ws.resumeAt
       /\ ws.queue = <<Utterance(ws.resumeAt, ws.speechRate, Len(ws.sentences))>>
       /\ ws.spoken = << >>
  /\ ws.resumeAt # NULL =>
       \A k \in 1..Len(ws.spoken) : ws.spoken[k] = ws.resumeAt + k - 1

\* C26 witness: the configuration changed while sentence 1 was spoken, and
\* sentences 1 and 2 have been started since
C26_Witness ==
  /\ ws.resumeAt = 1
  /\ ws.spoken = <<1, 2>>
  /\ ws.speechRate = 1

\* C27: in every reachable state of the prefetching App, the body of
\* handleReset applied twice gives the same state as applied once (flag,
\* audioRef, audio elements, cache, in-flight set, isSpeaking, now-playing,
\* sentences and everything else), and so does the unmount cleanup, also
\* after a reset; with audioRef empty, releasing the handle changes nothing.
C27_ReleaseIdempotent ==
  LET once == ResetState(Cur) IN
  /\ ResetState(once) = once
  /\ UnmountCleanup(once) = once
  /\ UnmountCleanup(UnmountCleanup(Cur)) = UnmountCleanup(Cur)
  /\ audioRef = NULL => ReleaseAudio(Cur) = Cur
  /\ once.audioRef = NULL

\* C27 witness: handleReset ran while the invocation awaited a synthesis and
\* audioRef was empty: no element was paused
C27_Witness ==
  /\ lastOp.op = "handleReset"
  /\ pc[1] = "synth"
  /\ \A s \in Sessions : audioState[s] = "none"
  /\ audioRef = NULL
  /\ isCancelledRef

\* ---------------------------------------------------------------------------
\* The text view: handleAnalyse's sentence split and RichTextDisplay's
\* rendering, on texts of at most MaxChars characters: a letter, a blank and a
\* sentence delimiter.

MaxChars == 5

Chars == {"a", " ", "."}

\* [.!?] of sentenceRegex
IsDelimiter(c) == c = "."

\* \s
IsWhitespace(c) == c = " "

\* s.trim().length = 0
IsBlank(s) == \A k \in 1..Len(s) : IsWhitespace(s[k])

\* The last position of the run of [^.!?] that starts at position p
RunEnd(text, p) ==
  CHOOSE e \in p..Len(text) :
    /\ \A k \in p..e : ~IsDelimiter(text[k])
    /\ e = Len(text) \/ IsDelimiter(text[e + 1])

\* text.match(/[^.!?]+[.!?]?/g) from position p on: the spans matched. A
\* delimiter at which no match starts is skipped.
RECURSIVE MatchFrom(_, _)
MatchFrom(text, p) ==
  IF p > Len(text) THEN << >>
  ELSE IF IsDelimiter(text[p]) THEN MatchFrom(text, p + 1)
  ELSE LET e == RunEnd(text, p)
           to == IF e < Len(text) THEN e + 1 ELSE e
       IN <<[from |-> p, to |-> to]>> \o MatchFrom(text, to + 1)

\* plainText.match(sentenceRegex) || []
sentenceRegexMatch(text) ==
  LET spans == MatchFrom(text, 1)
  IN [k \in 1..Len(spans) |-> SubSeq(text, spans[k].from, spans[k].to)]

\* The sentences handleAnalyse stores
SentencesText(text) == SelectSeq(sentenceRegexMatch(text), LAMBDA s : ~IsBlank(s))

\* sentenceEndOffsets of createSentenceMap: the running sum of the lengths of
\* the matches
RECURSIVE cumulativeLength(_, _)
cumulativeLength(sentences, i) ==
  IF i = 0 THEN 0 ELSE cumulativeLength(sentences, i - 1) + Len(sentences[i])

sentenceEndOffsets(text) ==
  LET sentences == sentenceRegexMatch(text)
  IN [i \in 1..Len(sentences) |-> cumulativeLength(sentences, i)]

\* The function createSentenceMap returns
sentenceMap(ends, charOffset) ==
  IF \E i \in 1..Len(ends) : charOffset < ends[i]
  THEN (CHOOSE i \in 1..Len(ends) :
          /\ charOffset < ends[i]
          /\ \A j \in 1..(i - 1) : ~(charOffset < ends[j])) - 1
  ELSE -1

\* The last position of the run of whitespace, or of non-whitespace, that
\* starts at position p
SegmentEnd(text, p) ==
  CHOOSE e \in p..Len(text) :
    /\ \A k \in p..e : IsWhitespace(text[k]) = IsWhitespace(text[p])
    /\ e = Len(text) \/ IsWhitespace(text[e + 1]) # IsWhitespace(text[p])

\* text.split(/(\s+)/) without its empty strings
RECURSIVE SplitFrom(_, _)
SplitFrom(text, p) ==
  IF p > Len(text) THEN << >>
  ELSE LET e == SegmentEnd(text, p)
       IN <<SubSeq(text, p, e)>> \o SplitFrom(text, e + 1)

\* transformNode on a text node, from segment k on: one span for each word.
\* sentenceId === speakingSentenceId is false for null, also when the map
\* returns -1.
RECURSIVE transformFrom(_, _, _, _, _)
transformFrom(wordsAndSpaces, k, charOffset, ends, speakingId) ==
  IF k > Len(wordsAndSpaces) THEN << >>
  ELSE LET segment == wordsAndSpaces[k]
           rest == transformFrom(wordsAndSpaces, k + 1, charOffset + Len(segment),
                                 ends, speakingId)
       IN IF ~IsBlank(segment)
          THEN <<[offset |-> charOffset,
                  length |-> Len(segment),
                  sentenceId |-> sentenceMap(ends, charOffset),
                  isHighlighted |-> /\ speakingId # NULL
                                    /\ sentenceMap(ends, charOffset) = speakingId]>> \o rest
          ELSE rest

transformNode(text, ends, speakingId) ==
  transformFrom(SplitFrom(text, 1), 1, 0, ends, speakingId)

parseHtmlToReact(html, speakingId) ==
  transformNode(html, sentenceEndOffsets(html), speakingId)

\* The render of the analysis view
RtRender(v) ==
  [v EXCEPT !.words = IF v.isAnalyzing
                      THEN parseHtmlToReact(v.htmlContent, v.speakingSentenceId)
                      ELSE << >>]

\* onInput of the editor
RtInput(c) ==
  /\ ~rt.isAnalyzing
  /\ Len(rt.htmlContent) < MaxChars
  /\ rt' = [rt EXCEPT !.htmlContent = Append(@, c)]
  /\ UNCHANGED <<appVars, ws, pr, tt>>

RtHandleAnalyse ==
  /\ ~rt.isAnalyzing
  /\ ~IsBlank(rt.htmlContent)
  /\ rt' = RtRender([rt EXCEPT !.sentencesForTTS = SentencesText(rt.htmlContent),
                               !.isAnalyzing = TRUE])
  /\ UNCHANGED <<appVars, ws, pr, tt>>

\* setSpeakingSentenceId(i) of the playback loop, or (null) at its end
RtSetSpeakingSentenceId(i) ==
  /\ rt.isAnalyzing
  /\ rt.speakingSentenceId # i
  /\ rt' = RtRender([rt EXCEPT !.speakingSentenceId = i])
  /\ UNCHANGED <<appVars, ws, pr, tt>>

RtHandleReset ==
  /\ rt.isAnalyzing
  /\ rt.resets < MaxResets
  /\ rt' = [RtInit EXCEPT !.resets = rt.resets + 1]
  /\ UNCHANGED <<appVars, ws, pr, tt>>

RtNext ==
  \/ \E c \in Chars : RtInput(c)
  \/ RtHandleAnalyse
  \/ \E i \in {NULL} \cup (0..(Len(rt.sentencesForTTS) - 1)) : RtSetSpeakingSentenceId(i)
  \/ RtHandleReset

RtSpec == Init /\ [][RtNext]_vars

\* The spans of the text that became the sentences of sentencesForTTS
SentenceSpans(text) ==
  SelectSeq(MatchFrom(text, 1),
            LAMBDA sp : ~IsBlank(SubSeq(text, sp.from, sp.to)))

\* Word w lies within the i-th sentence (from 0) of sentencesForTTS
WordInSentence(text, w, i) ==
  LET sp == SentenceSpans(text)[i + 1]
  IN sp.from <= w.offset + 1 /\ w.offset + w.length <= sp.to

\* C28: in the analysis view, every rendered word that lies within sentence i
\* of sentencesForTTS carries sentence id i, and while the now-playing id is i
\* the highlighted words that lie within a sentence are those of sentence i.
C28_HighlightMatchesSegment ==
  rt.isAnalyzing =>
    \A k \in 1..Len(rt.words) : \A i \in 0..(Len(rt.sentencesForTTS) - 1) :
      WordInSentence(rt.htmlContent, rt.words[k], i) =>
        /\ rt.words[k].sentenceId = i
        /\ rt.words[k].isHighlighted <=> rt.speakingSentenceId = i

\* C29: the audio element that is playing while the now-playing index is i
\* was created from speech synthesized from sentence i of the current
\* sentencesForTTS, and every cache entry for index i holds speech synthesized
\* from sentence i of the current sentencesForTTS.
C29_AudioMatchesCurrentDocument ==
  /\ \A s \in Sessions :
       (audioState[s] = "playing" /\ speakingSentenceId # NULL) =>
         /\ speakingSentenceId < Len(sentencesForTTS)
         /\ audioSrc[s].text = sentencesForTTS[speakingSentenceId + 1]
  /\ \A i \in DOMAIN audioCacheRef :
       /\ i < Len(sentencesForTTS)
       /\ audioCacheRef[i].text = sentencesForTTS[i + 1]

\* C30: a now-playing index is shown only while isSpeaking is true.
C30_HighlightImpliesSpeaking ==
  speakingSentenceId # NULL => isSpeaking

\* No audio element created by playAudio is playing
NoAudioPlaying == \A s \in Sessions : audioState[s] # "playing"

\* C31: when the stop branch of handleReadAloud returns no audio element is
\* playing, and none starts playing for as long as the flag it set stays set,
\* that is until speakSentences is called again.
C31_StopSilencesEveryAudio ==
  [][/\ lastOp'.op = "stop" => NoAudioPlaying'
     /\ (NoAudioPlaying /\ isCancelledRef /\ isCancelledRef') => NoAudioPlaying']_vars

\* C32: an invocation that stop or reset has hit shows no alert afterwards;
\* when synthesis fails for it, it ends idle without an alert.
C32_NoAlertAfterCancel ==
  [][\A s \in Sessions :
       cancelledAt[s] # NULL =>
         /\ s \notin alerted'
         /\ (\E f \in rejected' : f.sess = s) =>
              pc'[s] = "done" /\ alerted' = {}]_vars

\* C33: preloadingRef is the set of indices with an unsettled prefetch
\* request, and no index has two unsettled prefetch requests.
C33_InFlightSetIsExact ==
  /\ preloadingRef = {r.id : r \in PrefetchRequests}
  /\ \A r1, r2 \in PrefetchRequests : r1.id = r2.id => r1 = r2

\* ---------------------------------------------------------------------------
\* The playback rate of the prefetching App, for runs with one speakSentences
\* invocation at a time on a text of MaxLen sentences. Cache and prefetch do
\* not touch the rate and are left out: every sentence is synthesized, then
\* played.

Rates == {1, 2, 3}

\* handleReadAloud, start branch: handleReadAloud, speakSentences and
\* playAudio are those of the latest render, so playAudio holds the current
\* playbackRate
PrStart ==
  /\ ~pr.isSpeaking
  /\ pr.phase = "idle"
  /\ pr.starts < MaxSessions
  /\ pr' = [pr EXCEPT !.isSpeaking = TRUE, !.phase = "synth", !.i = 0,
                      !.loopRate = pr.playbackRate, !.starts = @ + 1]
  /\ UNCHANGED <<appVars, ws, rt, tt>>

\* The synthesis of sentence i resolves and playAudio creates the element:
\* audio.playbackRate = playbackRate of its closure
PrPlayAudio ==
  /\ pr.phase = "synth"
  /\ pr' = [pr EXCEPT !.phase = "play", !.audioRate = pr.loopRate]
  /\ UNCHANGED <<appVars, ws, rt, tt>>

\* The synthesis resolves after stop: break, and the code after the loop
PrCancelled ==
  /\ pr.phase = "cancelled"
  /\ pr' = [pr EXCEPT !.phase = "idle", !.i = NULL, !.loopRate = NULL]
  /\ UNCHANGED <<appVars, ws, rt, tt>>

\* audio.onended: cleanup, then the next sentence or the end of the loop
PrAudioEnded ==
  /\ pr.phase = "play"
  /\ pr' = IF pr.i + 1 < MaxLen
           THEN [pr EXCEPT !.phase = "synth", !.i = @ + 1, !.audioRate = NULL]
           ELSE [pr EXCEPT !.phase = "idle", !.i = NULL, !.audioRate = NULL,
                           !.loopRate = NULL, !.isSpeaking = FALSE]
  /\ UNCHANGED <<appVars, ws, rt, tt>>

\* handleReadAloud, stop branch: the element is released; an invocation that
\* awaits a synthesis ends when it resolves, one that awaits playAudio ends
\* with the error event of the released element
PrStop ==
  /\ pr.isSpeaking
  /\ pr' = IF pr.phase = "synth"
           THEN [pr EXCEPT !.isSpeaking = FALSE, !.phase = "cancelled"]
           ELSE [pr EXCEPT !.isSpeaking = FALSE, !.phase = "idle", !.i = NULL,
                           !.loopRate = NULL, !.audioRate = NULL]
  /\ UNCHANGED <<appVars, ws, rt, tt>>

\* handlePlaybackRateChange and the playbackRate effect that follows the
\* render: the element in audioRef, if any, takes the new rate
handlePlaybackRateChange(rate) ==
  /\ rate # pr.playbackRate
  /\ pr.changes < MaxRateChanges
  /\ pr' = [pr EXCEPT !.playbackRate = rate,
                      !.audioRate = IF @ # NULL THEN rate ELSE @,
                      !.changes = @ + 1]
  /\ UNCHANGED <<appVars, ws, rt, tt>>

PrNext ==
  \/ PrStart
  \/ PrPlayAudio
  \/ PrCancelled
  \/ PrAudioEnded
  \/ PrStop
  \/ \E rate \in Rates : handlePlaybackRateChange(rate)

PrSpec == Init /\ [][PrNext]_vars

\* C34: the audio element that is playing has the current playbackRate, so a
\* rate change reaches the playing element and every element the invocation
\* creates after it.
C34_RateChangeTakesEffect ==
  pr.phase = "play" => pr.audioRate = pr.playbackRate

\* C35: the stop branch of handleReadAloud leaves the cache as it was, and no
\* step issues a synthesis request, inline or prefetch, for an index that has a
\* cache entry.
C35_StopKeepsCacheAndCachedNotRequested ==
  [][/\ lastOp'.op = "stop" => audioCacheRef' = audioCacheRef
     /\ \A r \in requests' \ requests :
          ~CacheHas(audioCacheRef, r.id) /\ ~CacheHas(audioCacheRef', r.id)]_vars

\* C35 witness: after a stop, the second invocation on the same text plays
\* sentence 0 from the cache and has issued one request only, the prefetch of
\* sentence 2, the one index without an entry
C35_Witness ==
  /\ sessionCount = 2
  /\ resetCount = 0
  /\ lastOp = Op("speakSentences", 2)
  /\ pc[2] = "play"
  /\ DOMAIN audioCacheRef = {0, 1}
  /\ \E k \in DOMAIN events : events[k] = Event("prefetch", 2, 2)
  /\ \A k \in DOMAIN events : events[k][1] \in {"prefetch", "synth"} => events[k][3] = 2

\* C36: in the Web Speech variant, from the stop branch of handleReadAloud
\* until the next start no utterance is queued or spoken and isSpeaking is
\* false, whether the engine reports the cancelled utterance with end or with
\* error; and a step that handles an utterance error queues no utterance,
\* leaves currentSentenceIndexRef as it is and ends idle.
C36_StopIsFinalAndErrorNeverAdvances ==
  [][/\ ws'.stopped => (~ws'.isSpeaking /\ ws'.queue = << >>)
     /\ (\/ ws'.op = "onerror"
         \/ ws'.op = "cancelled" /\ ws.pending[1].kind = "error") =>
          /\ ws'.currentSentenceIndexRef = ws.currentSentenceIndexRef
          /\ ws'.queue = ws.queue \/ ws'.queue = Tail(ws.queue)
          /\ ~ws'.isSpeaking]_vars

\* ---------------------------------------------------------------------------
\* The word lookup: handleWordClick and translateWord, on words made of a
\* letter and a punctuation mark.

MaxClicks == 5

Words == {<<"a">>, <<"a", ".">>, <<".">>}

\* The answers of the Gemini call: a translation, an empty text, a failure
Responses == {"translation", "empty", "error"}

\* word.replace(/[.,!?;:)"'\]`]*$/, '')
RECURSIVE cleanedWord(_)
cleanedWord(word) ==
  IF word # << >> /\ word[Len(word)] = "."
  THEN cleanedWord(SubSeq(word, 1, Len(word) - 1))
  ELSE word

\* What translateWord resolves to; it catches every failure
translateWord(word, response) ==
  IF cleanedWord(word) = << >> THEN [kind |-> "word", of |-> word]
  ELSE IF response = "translation" THEN [kind |-> "translation", of |-> cleanedWord(word)]
  ELSE IF response = "empty" THEN [kind |-> "Translation not found.", of |-> << >>]
  ELSE [kind |-> "Translation failed.", of |-> << >>]

\* A render that leaves the word spans with the handleWordClick of the first
\* render
TtRenderStale(t) == t

\* The render after a state change: useCallback makes a new handleWordClick
\* when isTranslating changed, and RichTextDisplay gives it to the word spans
TtRender(t) == [t EXCEPT !.closure = t.isTranslating]

\* handleWordClick after the await: the tooltip shows the result, finally
\* setIsTranslating(false)
AfterTranslate(t, call, text) ==
  TtRender([t EXCEPT !.tooltip = [word |-> call.word, text |-> text],
                     !.isTranslating = FALSE,
                     !.calls = @ \ {call}])

\* handleWordClick up to the await. A word that is punctuation only gets its
\* answer without a request, in the same task.
WordClick(t, word) ==
  IF t.closure THEN t
  ELSE LET call == [n |-> t.issued + 1, word |-> word]
           t1 == TtRender([t EXCEPT !.isTranslating = TRUE,
                                    !.tooltip = [word |-> word,
                                                 text |-> [kind |-> "...", of |-> << >>]],
                                    !.calls = @ \cup {call},
                                    !.issued = @ + 1])
       IN IF cleanedWord(word) = << >>
          THEN AfterTranslate(t1, call, translateWord(word, "translation"))
          ELSE t1

handleWordClick(word) ==
  /\ tt.clicks < MaxClicks
  /\ tt' = [WordClick(tt, word) EXCEPT !.clicks = @ + 1]
  /\ UNCHANGED <<appVars, ws, rt, pr>>

\* The Gemini call of a pending translateWord settles
TranslateSettles(call, response) ==
  /\ call \in tt.calls
  /\ tt' = AfterTranslate(tt, call, translateWord(call.word, response))
  /\ UNCHANGED <<appVars, ws, rt, pr>>

\* A click outside the words while a tooltip is shown
closeTooltip ==
  /\ tt.tooltip # NoTooltip
  /\ tt' = TtRender([tt EXCEPT !.tooltip = NoTooltip])
  /\ UNCHANGED <<appVars, ws, rt, pr>>

TtNext ==
  \/ \E word \in Words : handleWordClick(word)
  \/ \E call \in tt.calls : \E response \in Responses : TranslateSettles(call, response)
  \/ closeTooltip

TtSpec == Init /\ [][TtNext]_vars

\* C37: at most one translateWord call is pending; a word click made while
\* one is pending makes no call and leaves the tooltip and isTranslating as
\* they are; the step in which a call settles, with a translation or a
\* failure, ends with isTranslating false; and isTranslating is true only
\* while a call is pending.
C37_SingleFlightLookup ==
  [][/\ Cardinality(tt'.calls) <= 1
     /\ (tt'.clicks = tt.clicks + 1 /\ tt.calls # {}) =>
          /\ tt'.issued = tt.issued
          /\ tt'.calls = tt.calls
          /\ tt'.tooltip = tt.tooltip
          /\ tt'.isTranslating = tt.isTranslating
     /\ (\E call \in tt.calls : call \notin tt'.calls) => ~tt'.isTranslating
     /\ tt'.isTranslating <=> tt'.calls # {}]_vars

\* C37 witness: a second word was clicked while the first lookup is pending:
\* one call, the tooltip still shows the placeholder of the first word
C37_Witness ==
  /\ tt.clicks = 2
  /\ tt.issued = 1
  /\ tt.calls = {[n |-> 1, word |-> <<"a">>]}
  /\ tt.isTranslating
  /\ tt.tooltip = [word |-> <<"a">>, text |-> [kind |-> "...", of |-> << >>]]

====
